---- MODULE Spec2Model ----
(***************************************************************************)
(* Product Service REST API (service/routes.py).                           *)
(*                                                                         *)
(* The state is the product table behind service.models.Product, the       *)
(* storage sequence that hands out ids, and the last request served with   *)
(* its response.  Every route handler is an operator from (table,          *)
(* sequence, request) to (table, sequence, response); one action per       *)
(* route applies it.  Text that the code converts (query parameters that   *)
(* are upper- or lower-cased, prices that are parsed and printed) is a     *)
(* sequence of one-character strings, so the conversions are computed.     *)
(***************************************************************************)
EXTENDS Integers, Sequences, FiniteSets, TLC

VARIABLES db, seq, req, resp, before, posted

vars == <<db, seq, req, resp, before, posted>>

\* Number of ids the storage sequence hands out before the model stops
\* accepting creates.
MaxId == 3

HTTP_200_OK == 200
HTTP_201_CREATED == 201
HTTP_204_NO_CONTENT == 204
HTTP_400_BAD_REQUEST == 400
HTTP_404_NOT_FOUND == 404
HTTP_415_UNSUPPORTED_MEDIA_TYPE == 415
HTTP_500_INTERNAL_SERVER_ERROR == 500

-----------------------------------------------------------------------------
(* Text: str.upper(), str.lower(), Decimal(str), str(Decimal)              *)

LowerLetters == <<"a","b","c","d","e","f","g","h","i","j","k","l","m",
                  "n","o","p","q","r","s","t","u","v","w","x","y","z">>

UpperLetters == <<"A","B","C","D","E","F","G","H","I","J","K","L","M",
                  "N","O","P","Q","R","S","T","U","V","W","X","Y","Z">>

UpperChar(c) ==
    IF \E i \in 1..Len(LowerLetters) : LowerLetters[i] = c
    THEN UpperLetters[CHOOSE i \in 1..Len(LowerLetters) : LowerLetters[i] = c]
    ELSE c

LowerChar(c) ==
    IF \E i \in 1..Len(UpperLetters) : UpperLetters[i] = c
    THEN LowerLetters[CHOOSE i \in 1..Len(UpperLetters) : UpperLetters[i] = c]
    ELSE c

RECURSIVE upper(_)
upper(s) == IF s = <<>> THEN <<>> ELSE <<UpperChar(Head(s))>> \o upper(Tail(s))

RECURSIVE lower(_)
lower(s) == IF s = <<>> THEN <<>> ELSE <<LowerChar(Head(s))>> \o lower(Tail(s))

Digits == <<"0","1","2","3","4","5","6","7","8","9">>

IsDigit(c) == \E i \in 1..Len(Digits) : Digits[i] = c

DigitVal(c) == (CHOOSE i \in 1..Len(Digits) : Digits[i] = c) - 1

IsNumeral(s) == s # <<>> /\ \A i \in 1..Len(s) : IsDigit(s[i])

\* Decimal("012") = Decimal("12"): the value of a numeral, leading zeros dropped.
RECURSIVE Decimal(_)
Decimal(s) ==
    IF s = <<>> THEN 0
    ELSE 10 * Decimal(SubSeq(s, 1, Len(s) - 1)) + DigitVal(s[Len(s)])

\* str(price): the canonical numeral of a value.
RECURSIVE str(_)
str(n) == IF n < 10 THEN <<Digits[n + 1]>> ELSE str(n \div 10) \o <<Digits[(n % 10) + 1]>>

-----------------------------------------------------------------------------
(* service.models: Category and Product (the persistence capability)       *)

Category == {"TOOLS", "FOOD"}

CategoryName(c) ==
    IF c = "TOOLS" THEN <<"T","O","O","L","S">> ELSE <<"F","O","O","D">>

\* Category[key]: the member of that name; a key that names none is a KeyError.
HasCategory(key) == \E c \in Category : CategoryName(c) = key

CategoryOf(key) == CHOOSE c \in Category : CategoryName(c) = key

\* JSON values
JStr(s) == [t |-> "str", v |-> s]

JBool(b) == [t |-> "bool", v |-> b]

JNum(n) == [t |-> "num", v |-> n]

JNull == [t |-> "null"]

RequiredFields == {"name", "description", "price", "available", "category"}

\* Product.deserialize(data): DataValidationError unless data is an object
\* holding every required field with the right type and a category name
\* of the enumeration.  The id is never read from the body.
ValidData(data) ==
    /\ data.json = "object"
    /\ RequiredFields \subseteq DOMAIN data.fields
    /\ data.fields["name"].t = "str"
    /\ data.fields["description"].t = "str"
    /\ data.fields["price"].t = "str" /\ IsNumeral(data.fields["price"].v)
    /\ data.fields["available"].t = "bool"
    /\ data.fields["category"].t = "str" /\ HasCategory(data.fields["category"].v)

deserialize(product, data) ==
    [ id          |-> product.id,
      name        |-> data.fields["name"].v,
      description |-> data.fields["description"].v,
      price       |-> Decimal(data.fields["price"].v),
      available   |-> data.fields["available"].v,
      category    |-> CategoryOf(data.fields["category"].v) ]

serialize(product) ==
    [ id          |-> product.id,
      name        |-> product.name,
      description |-> product.description,
      price       |-> str(product.price),
      available   |-> product.available,
      category    |-> CategoryName(product.category) ]

\* Product(): a product not yet stored has no id (0 stands for None).
NewProduct == [id |-> 0]

\* Product.find(id): the row of that id, if any.
find(d, product_id) == {p \in d : p.id = product_id}

all(d) == d

find_by_name(d, name) == {p \in d : p.name = name}

find_by_category(d, category) == {p \in d : p.category = category}

find_by_availability(d, available) == {p \in d : p.available = available}

\* product.create(): the storage assigns the next id of its sequence.
create(d, s, product) ==
    [db |-> d \cup {[product EXCEPT !.id = s]}, seq |-> s + 1, id |-> s]

\* product.update(): the row that was loaded is written back as it now is.
update(d, old, product) == (d \ {old}) \cup {product}

\* product.delete()
delete(d, product) == d \ {product}

-----------------------------------------------------------------------------
(* Requests                                                                *)

NoHeaders == [k \in {} |-> ""]

JsonHeaders == [k \in {"Content-Type"} |-> "application/json"]

CharsetHeaders == [k \in {"Content-Type"} |-> "application/json; charset=utf-8"]

HeaderSet == {NoHeaders, JsonHeaders, CharsetHeaders}

Obj1 ==
    [ name |-> JStr(<<"a">>), description |-> JStr(<<"x">>), price |-> JStr(<<"5">>),
      available |-> JBool(TRUE), category |-> JStr(<<"T","O","O","L","S">>) ]

Obj2 ==
    [ name |-> JStr(<<"b">>), description |-> JStr(<<"y">>), price |-> JStr(<<"1","2">>),
      available |-> JBool(FALSE), category |-> JStr(<<"F","O","O","D">>) ]

Obj3 ==
    [ name |-> JStr(<<"a">>), description |-> JStr(<<"y">>), price |-> JStr(<<"0","7">>),
      available |-> JBool(TRUE), category |-> JStr(<<"F","O","O","D">>) ]

Object(f) == [json |-> "object", fields |-> f]

Malformed == [json |-> "malformed"]

ValidBodies ==
    { Object(Obj1), Object(Obj2), Object(Obj3), Object(("id" :> JNum(1)) @@ Obj2) }

InvalidBodies ==
    { [json |-> "null"],
      Object([k \in DOMAIN Obj1 \ {"price"} |-> Obj1[k]]),
      Object([Obj1 EXCEPT !.price = JNull]),
      Object([Obj1 EXCEPT !.available = JStr(<<"y","e","s">>)]),
      Object([Obj1 EXCEPT !.category = JStr(<<"t","o","o","l","s">>)]) }

Bodies == ValidBodies \cup InvalidBodies \cup {Malformed}

NameValues == { <<>>, <<"a">>, <<"b">>, <<"A">> }

CategoryValues ==
    { <<>>, <<"t","o","o","l","s">>, <<"F","o","o","d">>, <<"T","O","O","L">> }

AvailableValues ==
    { <<>>, <<"T","r","u","e">>, <<"T">>, <<"1">>, <<"f","a","l","s","e">>, <<"y","e","s">> }

ArgValues(k) ==
    IF k = "name" THEN NameValues
    ELSE IF k = "category" THEN CategoryValues ELSE AvailableValues

ArgKeys == {"name", "category", "available"}

ArgsSet ==
    UNION { { a \in [K -> NameValues \cup CategoryValues \cup AvailableValues] :
                \A k \in K : a[k] \in ArgValues(k) } : K \in SUBSET ArgKeys }

Ids == 1..MaxId

Request(method, product_id, headers, args, body) ==
    [method |-> method, id |-> product_id, headers |-> headers, args |-> args, body |-> body]

NoArgs == [k \in {} |-> <<>>]

Response(status, body) == [status |-> status, body |-> body, headers |-> NoHeaders]

\* abort(status, message)
abort(d, s, status) == [db |-> d, seq |-> s, resp |-> Response(status, "error")]

-----------------------------------------------------------------------------
(* service/routes.py                                                       *)

\* A check of the media type alone, parameters such as charset ignored.
check_content_type_mimetype(headers, content_type) ==
    /\ "Content-Type" \in DOMAIN headers
    /\ \/ headers["Content-Type"] = content_type
       \/ headers["Content-Type"] = "application/json; charset=utf-8"

\* check_content_type: TRUE when the request passes, FALSE when it aborts 415.
check_content_type(headers, content_type) ==
    /\ "Content-Type" \in DOMAIN headers
    /\ headers["Content-Type"] = content_type

\* request.get_json(): the parsed body; a body that does not parse raises
\* werkzeug's BadRequest.
get_json(r) ==
    IF r.body.json = "malformed"
    THEN [raised |-> "BadRequest"]
    ELSE [raised |-> "", data |-> r.body]

\* product.deserialize(request.get_json()) as the try block sees it: the
\* exception it ends with ("" for none).
Raised(r) ==
    IF get_json(r).raised # "" THEN get_json(r).raised
    ELSE IF ~ValidData(get_json(r).data) THEN "DataValidationError"
    ELSE ""

\* except DataValidationError -> 400; except Exception -> 500
ExceptStatus(exc) ==
    IF exc = "DataValidationError"
    THEN HTTP_400_BAD_REQUEST
    ELSE HTTP_500_INTERNAL_SERVER_ERROR

create_products(d, s, r) ==
    IF ~check_content_type(r.headers, "application/json")
    THEN abort(d, s, HTTP_415_UNSUPPORTED_MEDIA_TYPE)
    ELSE IF Raised(r) # ""
    THEN abort(d, s, ExceptStatus(Raised(r)))
    ELSE LET product == deserialize(NewProduct, get_json(r).data)
             stored  == create(d, s, product)
             row     == CHOOSE p \in stored.db : p.id = stored.id
         IN  [ db   |-> stored.db,
               seq  |-> stored.seq,
               resp |-> [ status  |-> HTTP_201_CREATED,
                          body    |-> serialize(row),
                          headers |-> [k \in {"Location"} |-> row.id] ] ]

\* if name: / elif category: / elif available: -- None and "" are both falsy.
Given(args, k) == k \in DOMAIN args /\ args[k] # <<>>

\* The parameter compared as sent, not lower-cased.
is_available_as_sent(available) ==
    available \in { <<"t","r","u","e">>, <<"1">>, <<"t">> }

is_available(available) ==
    lower(available) \in { <<"t","r","u","e">>, <<"1">>, <<"t">> }

SerializeAll(products) == {serialize(p) : p \in products}

\* The category parameter looked at before the name parameter.
list_products_category_first(d, s, r) ==
    IF Given(r.args, "category")
    THEN IF HasCategory(upper(r.args["category"]))
         THEN [db |-> d, seq |-> s,
               resp |-> Response(HTTP_200_OK,
                          SerializeAll(find_by_category(d, CategoryOf(upper(r.args["category"])))))]
         ELSE abort(d, s, HTTP_400_BAD_REQUEST)
    ELSE IF Given(r.args, "name")
    THEN [db |-> d, seq |-> s,
          resp |-> Response(HTTP_200_OK, SerializeAll(find_by_name(d, r.args["name"])))]
    ELSE IF Given(r.args, "available")
    THEN [db |-> d, seq |-> s,
          resp |-> Response(HTTP_200_OK,
                     SerializeAll(find_by_availability(d, is_available(r.args["available"]))))]
    ELSE [db |-> d, seq |-> s, resp |-> Response(HTTP_200_OK, SerializeAll(all(d)))]

\* The available parameter looked at before the category parameter.
list_products_available_first(d, s, r) ==
    IF Given(r.args, "name")
    THEN [db |-> d, seq |-> s,
          resp |-> Response(HTTP_200_OK, SerializeAll(find_by_name(d, r.args["name"])))]
    ELSE IF Given(r.args, "available")
    THEN [db |-> d, seq |-> s,
          resp |-> Response(HTTP_200_OK,
                     SerializeAll(find_by_availability(d, is_available(r.args["available"]))))]
    ELSE IF Given(r.args, "category")
    THEN IF HasCategory(upper(r.args["category"]))
         THEN [db |-> d, seq |-> s,
               resp |-> Response(HTTP_200_OK,
                          SerializeAll(find_by_category(d, CategoryOf(upper(r.args["category"])))))]
         ELSE abort(d, s, HTTP_400_BAD_REQUEST)
    ELSE [db |-> d, seq |-> s, resp |-> Response(HTTP_200_OK, SerializeAll(all(d)))]

list_products(d, s, r) ==
    IF Given(r.args, "name")
    THEN [db |-> d, seq |-> s,
          resp |-> Response(HTTP_200_OK, SerializeAll(find_by_name(d, r.args["name"])))]
    ELSE IF Given(r.args, "category")
    THEN IF HasCategory(upper(r.args["category"]))
         THEN [db |-> d, seq |-> s,
               resp |-> Response(HTTP_200_OK,
                          SerializeAll(find_by_category(d, CategoryOf(upper(r.args["category"])))))]
         ELSE abort(d, s, HTTP_400_BAD_REQUEST)
    ELSE IF Given(r.args, "available")
    THEN [db |-> d, seq |-> s,
          resp |-> Response(HTTP_200_OK,
                     SerializeAll(find_by_availability(d, is_available(r.args["available"]))))]
    ELSE [db |-> d, seq |-> s, resp |-> Response(HTTP_200_OK, SerializeAll(all(d)))]

\* The first product of the table returned, whatever id was asked for.
get_products_first(d, s, r) ==
    IF d = {}
    THEN abort(d, s, HTTP_404_NOT_FOUND)
    ELSE LET product == CHOOSE p \in d : \A q \in d : p.id <= q.id
         IN  [db |-> d, seq |-> s, resp |-> Response(HTTP_200_OK, serialize(product))]

get_products(d, s, r) ==
    IF find(d, r.id) = {}
    THEN abort(d, s, HTTP_404_NOT_FOUND)
    ELSE LET product == CHOOSE p \in find(d, r.id) : TRUE
         IN  [db |-> d, seq |-> s, resp |-> Response(HTTP_200_OK, serialize(product))]

\* The id of the body, when it carries one, kept on the product.
update_products_body_id(d, s, r) ==
    IF ~check_content_type(r.headers, "application/json")
    THEN abort(d, s, HTTP_415_UNSUPPORTED_MEDIA_TYPE)
    ELSE IF find(d, r.id) = {}
    THEN abort(d, s, HTTP_404_NOT_FOUND)
    ELSE IF Raised(r) # ""
    THEN abort(d, s, ExceptStatus(Raised(r)))
    ELSE LET old     == CHOOSE p \in find(d, r.id) : TRUE
             loaded  == deserialize(old, get_json(r).data)
             data    == get_json(r).data.fields
             product == IF "id" \in DOMAIN data
                        THEN [loaded EXCEPT !.id = data["id"].v]
                        ELSE loaded
         IN  [ db   |-> update(d, old, product),
               seq  |-> s,
               resp |-> Response(HTTP_200_OK, serialize(product)) ]

\* The product answered with but never written back.
update_products_unsaved(d, s, r) ==
    IF ~check_content_type(r.headers, "application/json")
    THEN abort(d, s, HTTP_415_UNSUPPORTED_MEDIA_TYPE)
    ELSE IF find(d, r.id) = {}
    THEN abort(d, s, HTTP_404_NOT_FOUND)
    ELSE IF Raised(r) # ""
    THEN abort(d, s, ExceptStatus(Raised(r)))
    ELSE LET old     == CHOOSE p \in find(d, r.id) : TRUE
             loaded  == deserialize(old, get_json(r).data)
             product == [loaded EXCEPT !.id = r.id]
         IN  [db |-> d, seq |-> s, resp |-> Response(HTTP_200_OK, serialize(product))]

\* A product that is not stored is stored under the id of the URL.
update_products_upsert(d, s, r) ==
    IF ~check_content_type(r.headers, "application/json")
    THEN abort(d, s, HTTP_415_UNSUPPORTED_MEDIA_TYPE)
    ELSE IF Raised(r) # ""
    THEN abort(d, s, ExceptStatus(Raised(r)))
    ELSE LET loaded  == deserialize(NewProduct, get_json(r).data)
             product == [loaded EXCEPT !.id = r.id]
         IN  [ db   |-> {p \in d : p.id # r.id} \cup {product},
               seq  |-> s,
               resp |-> Response(HTTP_200_OK, serialize(product)) ]

update_products(d, s, r) ==
    IF ~check_content_type(r.headers, "application/json")
    THEN abort(d, s, HTTP_415_UNSUPPORTED_MEDIA_TYPE)
    ELSE IF find(d, r.id) = {}
    THEN abort(d, s, HTTP_404_NOT_FOUND)
    ELSE IF Raised(r) # ""
    THEN abort(d, s, ExceptStatus(Raised(r)))
    ELSE LET old     == CHOOSE p \in find(d, r.id) : TRUE
             loaded  == deserialize(old, get_json(r).data)
             product == [loaded EXCEPT !.id = r.id]
         IN  [ db   |-> update(d, old, product),
               seq  |-> s,
               resp |-> Response(HTTP_200_OK, serialize(product)) ]

\* A delete of a product that is not stored answered with 404.
delete_products_strict(d, s, r) ==
    IF find(d, r.id) = {}
    THEN abort(d, s, HTTP_404_NOT_FOUND)
    ELSE [ db   |-> delete(d, CHOOSE p \in find(d, r.id) : TRUE),
           seq  |-> s,
           resp |-> Response(HTTP_204_NO_CONTENT, "") ]

delete_products(d, s, r) ==
    LET d2 == IF find(d, r.id) # {}
              THEN delete(d, CHOOSE p \in find(d, r.id) : TRUE)
              ELSE d
    IN  [db |-> d2, seq |-> s, resp |-> Response(HTTP_204_NO_CONTENT, "")]

-----------------------------------------------------------------------------
(* The service as a state machine                                          *)

\* The bodies posted by the creates that answered 201, by id, for the ids not
\* updated or deleted since.
PostedAfter(r, out) ==
    IF r.method = "POST" /\ out.resp.status = HTTP_201_CREATED
    THEN posted \cup {[id |-> out.resp.body.id, body |-> r.body]}
    ELSE IF \/ r.method = "DELETE"
            \/ r.method = "PUT" /\ out.resp.status = HTTP_200_OK
    THEN {e \in posted : e.id # r.id}
    ELSE posted

\* No request is being served: the request context of the last one is gone.
NoRequest == Request("NONE", 0, NoHeaders, NoArgs, Malformed)

NoResponse == Response(0, "")

\* One request is served at a time: the handler runs on the table as it is and
\* its response is kept until the request context is torn down.
Serve(r, out) ==
    /\ req = NoRequest
    /\ out.seq <= MaxId + 1
    /\ before' = [db |-> db, seq |-> seq]
    /\ db' = out.db
    /\ seq' = out.seq
    /\ req' = r
    /\ resp' = out.resp
    /\ posted' = PostedAfter(r, out)

Init ==
    /\ db = {}
    /\ seq = 1
    /\ req = NoRequest
    /\ resp = NoResponse
    /\ before = [db |-> {}, seq |-> 1]
    /\ posted = {}

Create ==
    \E h \in HeaderSet, b \in Bodies :
        LET r == Request("POST", 0, h, NoArgs, b)
        IN  Serve(r, create_products(db, seq, r))

List ==
    \E a \in ArgsSet :
        LET r == Request("LIST", 0, NoHeaders, a, Malformed)
        IN  Serve(r, list_products(db, seq, r))

Get ==
    \E i \in Ids :
        LET r == Request("GET", i, NoHeaders, NoArgs, Malformed)
        IN  Serve(r, get_products(db, seq, r))

Update ==
    \E i \in Ids, h \in HeaderSet, b \in Bodies :
        LET r == Request("PUT", i, h, NoArgs, b)
        IN  Serve(r, update_products(db, seq, r))

Delete ==
    \E i \in Ids :
        LET r == Request("DELETE", i, NoHeaders, NoArgs, Malformed)
        IN  Serve(r, delete_products(db, seq, r))

\* The response has been sent; the handlers keep nothing between requests.
Respond ==
    /\ req # NoRequest
    /\ req' = NoRequest
    /\ resp' = NoResponse
    /\ before' = [db |-> db, seq |-> seq]
    /\ UNCHANGED <<db, seq, posted>>

Next == Create \/ List \/ Get \/ Update \/ Delete \/ Respond

Spec == Init /\ [][Next]_vars

-----------------------------------------------------------------------------
(* Properties                                                              *)

StoredIds(d) == {p.id : p \in d}

JsonContentType ==
    "Content-Type" \in DOMAIN req.headers /\ req.headers["Content-Type"] = "application/json"

NameGiven == "name" \in DOMAIN req.args /\ req.args["name"] # <<>>

CategoryGiven == "category" \in DOMAIN req.args /\ req.args["category"] # <<>>

AvailableGiven == "available" \in DOMAIN req.args /\ req.args["available"] # <<>>

\* The product fields a JSON body carries equal those of a serialized product,
\* the price compared as a decimal value.
SameFields(out, fields) ==
    /\ out.name = fields["name"].v
    /\ out.description = fields["description"].v
    /\ Decimal(out.price) = Decimal(fields["price"].v)
    /\ out.available = fields["available"].v
    /\ out.category = fields["category"].v

\* The same, of a stored product.
StoredFields(p, fields) ==
    /\ p.name = fields["name"].v
    /\ p.description = fields["description"].v
    /\ p.price = Decimal(fields["price"].v)
    /\ p.available = fields["available"].v
    /\ CategoryName(p.category) = fields["category"].v

\* C1: a POST of a valid body answers 201 with a Location naming the new id,
\* and a GET of an id whose create answered 201, with no update or delete of
\* that id since, answers 200 with the fields that were posted.
CreateThenGetRoundTrip ==
    /\ (req.method = "POST" /\ JsonContentType /\ req.body \in ValidBodies) =>
           /\ resp.status = HTTP_201_CREATED
           /\ DOMAIN resp.headers = {"Location"}
           /\ resp.headers["Location"] = resp.body.id
           /\ resp.body.id \in StoredIds(db)
    /\ \A e \in posted :
           (req.method = "GET" /\ req.id = e.id) =>
               /\ resp.status = HTTP_200_OK
               /\ resp.body.id = e.id
               /\ SameFields(resp.body, e.body.fields)

\* C1 witness: a GET of the second product created, posted with the price
\* "07", while the first is still stored.
CreateThenGetWitness ==
    /\ req.method = "GET"
    /\ req.id = 2
    /\ [id |-> 2, body |-> Object(Obj3)] \in posted
    /\ 1 \in StoredIds(db)
    /\ resp.status = HTTP_200_OK

\* C2: DELETE answers 204 whether or not the id is stored; afterwards the id
\* is not stored and a GET of it answers 404, every other product is as it
\* was, and the same DELETE again answers 204 and changes nothing.
DeleteIdempotent ==
    req.method = "DELETE" =>
        /\ resp.status = HTTP_204_NO_CONTENT
        /\ req.id \notin StoredIds(db)
        /\ get_products(db, seq, Request("GET", req.id, NoHeaders, NoArgs, Malformed)).resp.status
               = HTTP_404_NOT_FOUND
        /\ db = {p \in before.db : p.id # req.id}
        /\ delete_products(db, seq, req).resp.status = HTTP_204_NO_CONTENT
        /\ delete_products(db, seq, req).db = db

\* C2 witness: a DELETE of a stored product that leaves another one stored.
DeleteWitness ==
    /\ req.method = "DELETE"
    /\ req.id \in StoredIds(before.db)
    /\ db # {}
    /\ resp.status = HTTP_204_NO_CONTENT

\* C3: a PUT of a valid body on a stored id answers 200; the product keeps the
\* id of the URL and takes the fields of the body; the number of products and
\* every other product are unchanged.
UpdatePreservesId ==
    (/\ req.method = "PUT"
     /\ JsonContentType
     /\ req.body \in ValidBodies
     /\ req.id \in StoredIds(before.db)) =>
        /\ resp.status = HTTP_200_OK
        /\ resp.body.id = req.id
        /\ Cardinality(db) = Cardinality(before.db)
        /\ {p \in db : p.id # req.id} = {p \in before.db : p.id # req.id}
        /\ Cardinality({p \in db : p.id = req.id}) = 1
        /\ \A p \in db : p.id = req.id => StoredFields(p, req.body.fields)

\* C3 witness: a PUT on product 2 whose body carries the id 1, while product 1
\* is stored, that changes the product.
UpdateWitness ==
    /\ req.method = "PUT"
    /\ resp.status = HTTP_200_OK
    /\ req.id = 2
    /\ "id" \in DOMAIN req.body.fields
    /\ req.body.fields["id"].v = 1
    /\ 1 \in StoredIds(db)
    /\ db # before.db

\* C4 as claimed: every list request whose category parameter names no member
\* of Category, compared in upper case, answers 400.
InvalidCategoryAlways400 ==
    (/\ req.method = "LIST"
     /\ "category" \in DOMAIN req.args
     /\ \A c \in Category : CategoryName(c) # upper(req.args["category"])) =>
        resp.status = HTTP_400_BAD_REQUEST

\* C4 as amended: a list request with no non-empty name parameter and a
\* non-empty category parameter that names no member of Category, compared in
\* upper case, answers 400 and no list, whatever its available parameter.
InvalidCategory400 ==
    (/\ req.method = "LIST"
     /\ ~NameGiven
     /\ CategoryGiven
     /\ \A c \in Category : CategoryName(c) # upper(req.args["category"])) =>
        /\ resp.status = HTTP_400_BAD_REQUEST
        /\ resp.body = "error"
        /\ db = before.db

\* C4 witness: the category TOOL with an available parameter and an empty
\* name parameter, on a table that holds products.
InvalidCategoryWitness ==
    /\ req.method = "LIST"
    /\ DOMAIN req.args = {"name", "category", "available"}
    /\ req.args["name"] = <<>>
    /\ req.args["category"] = <<"T","O","O","L">>
    /\ req.args["available"] = <<"1">>
    /\ db # {}
    /\ resp.status = HTTP_400_BAD_REQUEST

\* C5: a POST, or a PUT on a stored id, sent as application/json with a body
\* that does not parse or fails validation answers 400 and leaves the table
\* as it was.
BadBodyYields400 ==
    (/\ \/ req.method = "POST"
        \/ req.method = "PUT" /\ req.id \in StoredIds(before.db)
     /\ JsonContentType
     /\ req.body \in InvalidBodies \cup {Malformed}) =>
        /\ resp.status = HTTP_400_BAD_REQUEST
        /\ db = before.db

\* C6: a POST or PUT with no Content-Type, or one that is not exactly
\* application/json, answers 415, also on an id that is not stored, and the
\* table is unchanged.
WrongContentType415 ==
    (req.method \in {"POST", "PUT"} /\ ~JsonContentType) =>
        /\ resp.status = HTTP_415_UNSUPPORTED_MEDIA_TYPE
        /\ db = before.db
        /\ seq = before.seq

\* C6 witness: a PUT of a valid body, sent as application/json with a charset,
\* on an id that is not stored.
WrongContentTypeWitness ==
    /\ req.method = "PUT"
    /\ req.headers = CharsetHeaders
    /\ req.body \in ValidBodies
    /\ req.id \notin StoredIds(before.db)
    /\ before.db # {}
    /\ resp.status = HTTP_415_UNSUPPORTED_MEDIA_TYPE

\* C7: a list request with a non-empty name answers 200 with exactly the
\* stored products of that name; one with no parameter answers 200 with all
\* stored products.
NameFilterExact ==
    /\ (req.method = "LIST" /\ NameGiven) =>
           /\ resp.status = HTTP_200_OK
           /\ {b.id : b \in resp.body} = {p.id : p \in {q \in db : q.name = req.args["name"]}}
           /\ \A b \in resp.body : b.name = req.args["name"]
           /\ Cardinality(resp.body) = Cardinality({q \in db : q.name = req.args["name"]})
    /\ (req.method = "LIST" /\ DOMAIN req.args = {}) =>
           /\ resp.status = HTTP_200_OK
           /\ {b.id : b \in resp.body} = StoredIds(db)
           /\ Cardinality(resp.body) = Cardinality(db)

\* C7 witness: the name a, sent with a category that names no member, finds
\* two products and leaves out a third.
NameFilterWitness ==
    /\ req.method = "LIST"
    /\ NameGiven
    /\ req.args["name"] = <<"a">>
    /\ "category" \in DOMAIN req.args
    /\ req.args["category"] = <<"T","O","O","L">>
    /\ Cardinality(resp.body) = 2
    /\ Cardinality(db) = 3

\* C8: a GET, or a PUT of a valid body sent as application/json, on an id that
\* is not stored answers 404 and leaves the table as it was.
NotFound404 ==
    (/\ \/ req.method = "GET"
        \/ req.method = "PUT" /\ JsonContentType /\ req.body \in ValidBodies
     /\ req.id \notin StoredIds(before.db)) =>
        /\ resp.status = HTTP_404_NOT_FOUND
        /\ db = before.db
        /\ seq = before.seq

\* C8 witness: a PUT of a valid body on an id that was deleted, while another
\* product is stored.
NotFoundWitness ==
    /\ req.method = "PUT"
    /\ JsonContentType
    /\ req.body \in ValidBodies
    /\ req.id < seq
    /\ req.id \notin StoredIds(before.db)
    /\ db # {}
    /\ resp.status = HTTP_404_NOT_FOUND

\* C9: no two stored products share an id; a create that answers 201 stores
\* its product under an id no stored product held; and every product stored
\* before a request is afterwards stored under the same id, unless the
\* request deleted it.
IdAssignedAndImmutable ==
    /\ Cardinality(StoredIds(db)) = Cardinality(db)
    /\ (req.method = "POST" /\ resp.status = HTTP_201_CREATED) =>
           /\ resp.body.id \notin StoredIds(before.db)
           /\ StoredIds(db) = StoredIds(before.db) \cup {resp.body.id}
           /\ before.db \subseteq db
    /\ ~(req.method = "POST" /\ resp.status = HTTP_201_CREATED) =>
           StoredIds(db) \subseteq StoredIds(before.db)
    /\ \A i \in StoredIds(before.db) :
           i \in StoredIds(db) \/ (req.method = "DELETE" /\ req.id = i)

\* C9 witness: a create after a delete: one product was stored, two ids had
\* been handed out, and the new product gets the third.
IdAssignedWitness ==
    /\ req.method = "POST"
    /\ resp.status = HTTP_201_CREATED
    /\ Cardinality(before.db) = 1
    /\ resp.body.id = 3

\* C10: a list request is answered by one filter: name if non-empty, else
\* category if non-empty, else available if non-empty, else none.  A valid
\* category gives exactly the products of that category; available gives
\* exactly the products whose flag is the parsed value, true iff the
\* lower-cased parameter is true, 1 or t.
FilterPrecedence ==
    req.method = "LIST" =>
        /\ NameGiven =>
               /\ resp.status = HTTP_200_OK
               /\ {b.id : b \in resp.body} = {p.id : p \in {q \in db : q.name = req.args["name"]}}
        /\ (/\ ~NameGiven
            /\ CategoryGiven
            /\ \E c \in Category : CategoryName(c) = upper(req.args["category"])) =>
               /\ resp.status = HTTP_200_OK
               /\ {b.id : b \in resp.body} =
                      {p.id : p \in {q \in db :
                          CategoryName(q.category) = upper(req.args["category"])}}
               /\ \A b \in resp.body : b.category = upper(req.args["category"])
        /\ (~NameGiven /\ ~CategoryGiven /\ AvailableGiven) =>
               /\ resp.status = HTTP_200_OK
               /\ {b.id : b \in resp.body} =
                      {p.id : p \in {q \in db :
                          q.available = (lower(req.args["available"]) \in
                              { <<"t","r","u","e">>, <<"1">>, <<"t">> })}}
        /\ (~NameGiven /\ ~CategoryGiven /\ ~AvailableGiven) =>
               /\ resp.status = HTTP_200_OK
               /\ {b.id : b \in resp.body} = StoredIds(db)

\* C10 witness: the category Food with available=yes and an empty name: both
\* FOOD products are listed, the available one included.
FilterPrecedenceWitness ==
    /\ req.method = "LIST"
    /\ DOMAIN req.args = {"name", "category", "available"}
    /\ req.args["name"] = <<>>
    /\ req.args["category"] = <<"F","o","o","d">>
    /\ req.args["available"] = <<"y","e","s">>
    /\ Cardinality(resp.body) = 2
    /\ \E b \in resp.body : b.available
    /\ Cardinality(db) = 3

====
